---- MODULE Spec2Model ----
(***************************************************************************)
(* The tunnel client of usocks (src/src/client.py): the Connection wrapper *)
(* of one local socket and the TunnelClient reactor that moves bytes       *)
(* between the local sockets and the multiplexing tunnel.                  *)
(*                                                                         *)
(* The record layer, the tunnel layer and util.get_select_list are         *)
(* imported by client.py but are not part of the sources at hand; they are *)
(* modelled from their contracts in the specification (sections 3, 4.1,    *)
(* 4.2) and are the environment of the reactor: what select() reports,     *)
(* what the sockets accept or return and what the tunnel yields are        *)
(* nondeterministic inputs.                                                *)
(*                                                                         *)
(* Bytes are labelled by their position in their stream: the k-th byte     *)
(* ever handed to a local connection is the number k, the k-th byte read   *)
(* from a local socket is the number k.  Any loss, duplication or          *)
(* reordering of bytes is then visible in the sequences kept below.        *)
(***************************************************************************)
EXTENDS Integers, Sequences, FiniteSets, TLC

\* Total number of inputs the environment feeds the reactor in one run:
\* accepted local connections + bytes carried by inbound DAT packets +
\* bytes read from local sockets.
MaxInput == 3

\* Number of handles the backend of the tunnel reports to select().
TunnelHandles == 2

\* StatusControl flags of the tunnel layer (bit set).
dat == 1
fin == 2
rst == 4

\* Entities the reactor polls: the tunnel, the listening Connection (whose
\* conn_id is -1) and the local Connection objects 1, 2, ...
TunnelEnt == 0
ListenEnt == -1

\* Bytes the record layer adds to a payload when it frames it.
Overhead == 1

VARIABLES
    pc,             \* position of run(): "start", "loop", "select", "rloop",
                    \* "tunnel", "wloop", "closing", "flush", "done", "crashed"
    running,        \* self.running
    stopRequested,  \* a termination signal has been delivered
    conns,          \* self.conns: conn_id -> index of the Connection object
    objs,           \* the Connection objects created so far
    tlog,           \* per stream id, the calls made on the tunnel, in order
    rlist,          \* entities of the read wait set not yet handled
    waitAvail,      \* tunnel.available as read when the read wait set was built
    wlist,          \* handles of the write wait set not yet handled
    written_conns,  \* entities flushed in this iteration
    tun,            \* the tunnel and its record connection
    listenOpen,     \* the listening socket is open
    backendCloses,  \* number of backend.close() calls made by run()
    last,           \* the last step of the reactor and its input
    exc             \* the exception that ended run(), "none" otherwise

vars == <<pc, running, stopRequested, conns, objs, tlog, rlist, waitAvail, wlist,
          written_conns, tun, listenOpen, backendCloses, last, exc>>

----------------------------------------------------------------------------
\* Helpers

HasFlag(control, f) == (control \div f) % 2 = 1

Controls == 1..7

RECURSIVE SumLen(_, _)
SumLen(s, field) ==
    IF s = <<>> THEN 0
    ELSE (IF field = "appended" THEN Len(Head(s).appended) ELSE Len(Head(s).recvd))
         + SumLen(Tail(s), field)

\* Inputs consumed so far, against MaxInput.
Used == Len(objs) + SumLen(objs, "appended") + SumLen(objs, "recvd")

Budget == MaxInput - Used

\* The bytes numbered n+1 .. n+len.
NextBytes(n, len) == [i \in 1..len |-> n + i]

Drop(s, n) == SubSeq(s, n + 1, Len(s))

Take(s, n) == SubSeq(s, 1, n)

----------------------------------------------------------------------------
\* Connection

NewConnection(conn_id) ==
    [conn_id |-> conn_id, send_buf |-> <<>>, closed |-> FALSE, closes |-> 0,
     linger |-> FALSE, sock |-> <<>>, appended |-> <<>>, recvd |-> <<>>,
     badOps |-> 0]

\* What the socket does with a send of buf: it takes the first n bytes.
SockAccept(c, buf, n) == [c EXCEPT !.sock = @ \o Take(buf, n)]

\* A send that drops one byte more than the socket accepted.
RemainderOffByOne(buf, sent) == IF sent # 0 THEN Drop(buf, sent + 1) ELSE buf

\* The buffer kept after the socket reported `sent` bytes accepted.
Remainder(buf, sent) == IF sent # 0 THEN Drop(buf, sent) ELSE buf

\* The buffer after the optional append of data.
Appended(buf, data) == IF data # <<>> THEN buf \o data ELSE buf

\* An operation attempted on a socket that is already closed (EBADF).
BadOp(c) == [c EXCEPT !.badOps = @ + 1]

\* Connection.send(data); out is the outcome of conn.send(self.send_buf):
\* [err |-> "none", n |-> bytes accepted], [err |-> "EWOULDBLOCK", n |-> 0]
\* or [err |-> "other", n |-> 0], an error that send re-raises.  On a closed
\* socket conn.send raises EBADF whatever out is.
ConnSend(c, data, out) ==
    LET buf  == Appended(c.send_buf, data)
        c1   == [c EXCEPT !.send_buf = buf, !.appended = @ \o data]
    IN  IF buf = <<>> THEN c1
        ELSE IF c.closed THEN BadOp(c1)
        ELSE IF out.err = "other" THEN c1
        ELSE LET sent == IF out.err = "EWOULDBLOCK" THEN 0 ELSE out.n
                 c2   == SockAccept(c1, buf, out.n)
             IN  [c2 EXCEPT !.send_buf = Remainder(buf, sent)]

\* The exception Connection.send(data) ends with, "none" when it returns.
ConnSendRaises(c, data, out) ==
    IF Appended(c.send_buf, data) = <<>> THEN "none"
    ELSE IF c.closed THEN "EBADF"
    ELSE IF out.err = "other" THEN "socket.error"
    ELSE "none"

\* The outcomes conn.send(buf) can have on an open socket.
SendOutcomes(buf) ==
    {[err |-> "none", n |-> k] : k \in 0..Len(buf)}
        \cup {[err |-> "EWOULDBLOCK", n |-> 0], [err |-> "other", n |-> 0]}

ConnClose(c) == [c EXCEPT !.closed = TRUE, !.closes = @ + 1]

ConnReset(c) == ConnClose([c EXCEPT !.linger = TRUE])

----------------------------------------------------------------------------
\* The tunnel and its record connection (modelled from their contracts)

\* A record of n payload bytes, as queued by RecordConnection.send.
RecordLen(n) == n + Overhead

\* tunnel.new_connection(): the next id of the monotonic allocator.
TunNewConnection(t) == [t EXCEPT !.next_id = @ + 1]

\* tunnel.send_packet / close_connection / reset_connection: one packet of
\* n data bytes is framed and queued.
TunQueue(t, n) == [t EXCEPT !.outq = @ + RecordLen(n)]

\* record_conn.continue_sending() when the backend accepts n bytes.
TunContinueSending(t, n) == [t EXCEPT !.outq = @ - n]

\* tunnel.get_wlist(): its handles, when outbound bytes are buffered.
TunWlist(t) ==
    IF t.outq > 0 THEN {<<TunnelEnt, h>> : h \in 1..TunnelHandles} ELSE {}

\* record_conn.close(): the record connection stops receiving; what is
\* queued stays queued for continue_sending(), and the close may itself
\* queue n bytes (a closing record) for the peer.
RecordClose(t, n) ==
    [t EXCEPT !.recordClosed = TRUE, !.available = FALSE, !.outq = @ + n]

\* The record layer met end-of-stream: ConnectionClosedException.
TunEndOfStream(t) == [t EXCEPT !.eof = TRUE, !.available = FALSE]

----------------------------------------------------------------------------
\* TunnelClient

OpenConns == {conns[k] : k \in DOMAIN conns}

Remove(cs, conn_id) == [k \in (DOMAIN cs) \ {conn_id} |-> cs[k]]

\* A _close_connection that ignores its reset argument.
CloseConnectionNoReset(cs, os, conn_id, reset) ==
    LET o == cs[conn_id]
    IN  [conns |-> Remove(cs, conn_id),
         objs  |-> [os EXCEPT ![o] = ConnClose(@)]]

\* _close_connection(conn_id, reset), for a conn_id that is in the table;
\* cs is the table, os the objects.
CloseConnection(cs, os, conn_id, reset) ==
    LET o == cs[conn_id]
    IN  [conns |-> Remove(cs, conn_id),
         objs  |-> [os EXCEPT ![o] = IF reset THEN ConnReset(@)
                                              ELSE ConnClose(@)]]

NoLast == [op |-> "none", id |-> 0, arg |-> "none", n |-> 0]

\* An exception leaves run(): the locals of _process are gone.
Crash(e) ==
    /\ pc' = "crashed"
    /\ exc' = e
    /\ rlist' = {}
    /\ waitAvail' = FALSE
    /\ wlist' = {}
    /\ written_conns' = {}

\* The handler returns and the loop it was called from goes on.
Continue == UNCHANGED <<pc, exc, rlist, waitAvail, wlist, written_conns>>

Init ==
    /\ pc = "start"
    /\ running = FALSE
    /\ stopRequested = FALSE
    /\ conns = <<>>
    /\ objs = <<>>
    /\ tlog = <<>>
    /\ rlist = {}
    /\ waitAvail = FALSE
    /\ wlist = {}
    /\ written_conns = {}
    /\ tun = [next_id |-> 1, available |-> FALSE, outq |-> 0, eof |-> FALSE,
              recordClosed |-> FALSE]
    /\ listenOpen = TRUE
    /\ backendCloses = 0
    /\ last = NoLast
    /\ exc = "none"

\* The signal handler installed by main(): client.running = False.
Signal ==
    /\ pc \notin {"done", "crashed"}
    /\ running \/ ~stopRequested
    /\ running' = FALSE
    /\ stopRequested' = TRUE
    /\ UNCHANGED <<pc, conns, objs, tlog, rlist, waitAvail, wlist, written_conns, tun,
                   listenOpen, backendCloses, last, exc>>

\* run(): self.running = True
RunStart ==
    /\ pc = "start"
    /\ running' = TRUE
    /\ pc' = "loop"
    /\ UNCHANGED <<stopRequested, conns, objs, tlog, rlist, waitAvail, wlist,
                   written_conns, tun, listenOpen, backendCloses, last, exc>>

\* run(): while self.running
LoopCheck ==
    /\ pc = "loop"
    /\ pc' = IF running THEN "select" ELSE "closing"
    /\ last' = NoLast
    /\ UNCHANGED <<running, stopRequested, conns, objs, tlog, rlist, waitAvail, wlist,
                   written_conns, tun, listenOpen, backendCloses, exc>>

\* A read wait set that holds the local connections whatever the tunnel says.
ReadSetAlways == {TunnelEnt, ListenEnt} \cup OpenConns

\* The read wait set built by _process.
ReadSet ==
    {TunnelEnt, ListenEnt} \cup (IF tun.available THEN OpenConns ELSE {})

\* The write wait set built by _process.
WriteSet ==
    TunWlist(tun) \cup {<<o, 1>> : o \in {x \in OpenConns : objs[x].send_buf # <<>>}}

\* _process: the wait sets are built and select() returns.  Which of the
\* handles select() reported ready is revealed as the loops over its result
\* go: each loop handles, in any order, some of the handles waited for.
Select ==
    /\ pc = "select"
    /\ rlist' = ReadSet
    /\ waitAvail' = tun.available
    /\ wlist' = WriteSet
    /\ written_conns' = {}
    /\ pc' = "rloop"
    /\ UNCHANGED <<running, stopRequested, conns, objs, tlog, tun, listenOpen,
                   backendCloses, last, exc>>

\* _process: select() is interrupted by a signal (EINTR): return.
SelectInterrupted ==
    /\ pc = "select"
    /\ pc' = "loop"
    /\ last' = NoLast
    /\ UNCHANGED <<running, stopRequested, conns, objs, tlog, rlist, waitAvail, wlist,
                   written_conns, tun, listenOpen, backendCloses, exc>>

\* _process_tunnel, lines 146-152: what one packet (conn_id, control, data)
\* for a conn_id of the table does to the table cs and the objects os; out
\* is the outcome of the socket send of a DAT.  exc names the exception that
\* ends the handling, "none" when the loop body completes.
HandlePacket(cs, os, conn_id, control, data, out) ==
    LET o  == cs[conn_id]
        s1 == IF HasFlag(control, rst)
              THEN CloseConnection(cs, os, conn_id, TRUE)
              ELSE [conns |-> cs, objs |-> os]
        e2 == IF HasFlag(control, dat)
              THEN ConnSendRaises(s1.objs[o], data, out) ELSE "none"
        o2 == IF HasFlag(control, dat)
              THEN [s1.objs EXCEPT ![o] = ConnSend(@, data, out)]
              ELSE s1.objs
    IN  IF e2 # "none"
        THEN [conns |-> s1.conns, objs |-> o2, exc |-> e2]
        ELSE IF ~HasFlag(control, fin)
        THEN [conns |-> s1.conns, objs |-> o2, exc |-> "none"]
        ELSE IF conn_id \notin DOMAIN s1.conns
        THEN [conns |-> s1.conns, objs |-> o2, exc |-> "KeyError"]
        ELSE LET s3 == CloseConnection(s1.conns, o2, conn_id, FALSE)
             IN  [conns |-> s3.conns, objs |-> s3.objs, exc |-> "none"]

\* A loop body that looks the conn_id up without the test of line 144.
ProcessPacketUnchecked(cs, os, conn_id, control, data, out) ==
    IF conn_id \notin DOMAIN cs
    THEN [conns |-> cs, objs |-> os, exc |-> "KeyError"]
    ELSE HandlePacket(cs, os, conn_id, control, data, out)

\* _process_tunnel, lines 144-152: the loop body for one packet.
ProcessPacket(cs, os, conn_id, control, data, out) ==
    IF conn_id \notin DOMAIN cs
    THEN [conns |-> cs, objs |-> os, exc |-> "none"]
    ELSE HandlePacket(cs, os, conn_id, control, data, out)

\* A call on the tunnel, as kept in tlog.
Call(op, data) == [op |-> op, data |-> data]

\* _process, lines 125-132: the next readable entity is handled.
\* The tunnel: _process_tunnel starts to drain receive_packets().
ReadTunnel ==
    /\ pc = "rloop"
    /\ TunnelEnt \in rlist
    /\ rlist' = rlist \ {TunnelEnt}
    /\ waitAvail' = waitAvail
    /\ pc' = "tunnel"
    /\ last' = NoLast
    /\ UNCHANGED <<running, stopRequested, conns, objs, tlog, wlist,
                   written_conns, tun, listenOpen, backendCloses, exc>>

\* receive_packets() yields a packet whose conn_id is not in the table
\* (never opened, or closed before), with any flags and data: the outcomes
\* of the loop body over all such packets.
UnknownPacketResults ==
    {ProcessPacket(conns, objs, p[1], p[2],
                   IF HasFlag(p[2], dat) THEN NextBytes(0, 1) ELSE <<>>,
                   [err |-> "none", n |-> 0]) :
        p \in ((1..tun.next_id) \ DOMAIN conns) \X Controls}

TunnelPacketUnknown ==
    /\ pc = "tunnel"
    /\ \E res \in UnknownPacketResults :
         /\ conns' = res.conns
         /\ objs' = res.objs
         /\ last' = [NoLast EXCEPT !.op = "packet", !.arg = "unknown"]
         /\ IF res.exc = "none" THEN Continue ELSE Crash(res.exc)
    /\ UNCHANGED <<running, stopRequested, tlog, tun, listenOpen, backendCloses>>

\* receive_packets() yields a packet for a conn_id of the table and the loop
\* body handles it; a DAT carries the next len bytes of its stream.
TunnelPacket ==
    /\ pc = "tunnel"
    /\ \E conn_id \in DOMAIN conns, control \in Controls :
         \E len \in (IF HasFlag(control, dat) THEN 1..Budget ELSE {0}) :
           LET c     == objs[conns[conn_id]]
               data  == NextBytes(Len(c.appended), len)
               outs  == IF HasFlag(control, dat)
                        THEN SendOutcomes(Appended(c.send_buf, data))
                        ELSE {[err |-> "none", n |-> 0]}
           IN  \E out \in outs :
                 LET res == ProcessPacket(conns, objs, conn_id, control, data, out)
                 IN  /\ conns' = res.conns
                     /\ objs' = res.objs
                     /\ last' = [op |-> "packet", id |-> conn_id,
                                 arg |-> out.err, n |-> control]
                     /\ IF res.exc = "none" THEN Continue ELSE Crash(res.exc)
    /\ UNCHANGED <<running, stopRequested, tlog, tun, listenOpen, backendCloses>>

\* receive_packets() is exhausted; the tunnel may have become established.
TunnelDone ==
    /\ pc = "tunnel"
    /\ \E a \in {tun.available, ~tun.eof} : tun' = [tun EXCEPT !.available = a]
    /\ pc' = "rloop"
    /\ last' = NoLast
    /\ UNCHANGED <<running, stopRequested, conns, objs, tlog, rlist, waitAvail, wlist,
                   written_conns, listenOpen, backendCloses, exc>>

\* receive_packets() raises ConnectionClosedException: lines 153-154.
TunnelClosed ==
    /\ pc = "tunnel"
    /\ tun' = TunEndOfStream(tun)
    /\ running' = FALSE
    /\ pc' = "rloop"
    /\ last' = [NoLast EXCEPT !.op = "closed"]
    /\ UNCHANGED <<stopRequested, conns, objs, tlog, rlist, waitAvail, wlist,
                   written_conns, listenOpen, backendCloses, exc>>

\* A _process_listening without its last line: the pair is not registered.
ProcessListeningNoEntry(cs, os, t, tl) ==
    [conns |-> cs,
     objs  |-> Append(os, NewConnection(t.next_id)),
     tun   |-> TunNewConnection(t),
     tlog  |-> Append(tl, <<Call("new", <<>>)>>)]

\* _process_listening: accept, new_connection, Connection, table entry.
ProcessListening(cs, os, t, tl) ==
    LET conn_id == t.next_id
        o       == Len(os) + 1
    IN  [conns |-> [k \in (DOMAIN cs) \cup {conn_id} |->
                        IF k = conn_id THEN o ELSE cs[k]],
         objs  |-> Append(os, NewConnection(conn_id)),
         tun   |-> TunNewConnection(t),
         tlog  |-> Append(tl, <<Call("new", <<>>)>>)]

\* The listening socket is readable: one local connection is accepted.
\* new_connection() on a tunnel that is not available either raises or
\* queues the stream; accept() itself may raise.
ReadListening ==
    /\ pc = "rloop"
    /\ ListenEnt \in rlist
    /\ last' = [NoLast EXCEPT !.op = "accept"]
    /\ \/ /\ Budget >= 1
          /\ LET res == ProcessListening(conns, objs, tun, tlog)
             IN  /\ conns' = res.conns
                 /\ objs' = res.objs
                 /\ tun' = res.tun
                 /\ tlog' = res.tlog
          /\ rlist' = rlist \ {ListenEnt}
          /\ waitAvail' = waitAvail
          /\ UNCHANGED <<pc, exc, wlist, written_conns>>
       \/ /\ ~tun.available
          /\ Crash("new_connection")
          /\ UNCHANGED <<conns, objs, tun, tlog>>
       \/ /\ Crash("socket.error")
          /\ UNCHANGED <<conns, objs, tun, tlog>>
    /\ UNCHANGED <<running, stopRequested, listenOpen, backendCloses>>

\* _process_connection, lines 167-170: recv failed with ECONNRESET.
OnReset(cs, os, t, tl, conn_id) ==
    LET s == CloseConnection(cs, os, conn_id, FALSE)
    IN  [conns |-> s.conns, objs |-> s.objs, tun |-> TunQueue(t, 0),
         tlog |-> [tl EXCEPT ![conn_id] = Append(@, Call("reset", <<>>))]]

\* An end-of-file branch without its else: the empty read is forwarded too.
OnEofNoElse(cs, os, t, tl, conn_id) ==
    LET s == CloseConnection(cs, os, conn_id, FALSE)
    IN  [conns |-> s.conns, objs |-> s.objs,
         tun |-> TunQueue(TunQueue(t, 0), 0),
         tlog |-> [tl EXCEPT ![conn_id] =
                      Append(Append(@, Call("close", <<>>)), Call("send", <<>>))]]

\* _process_connection, lines 172-174: recv returned no bytes.
OnEof(cs, os, t, tl, conn_id) ==
    LET s == CloseConnection(cs, os, conn_id, FALSE)
    IN  [conns |-> s.conns, objs |-> s.objs, tun |-> TunQueue(t, 0),
         tlog |-> [tl EXCEPT ![conn_id] = Append(@, Call("close", <<>>))]]

\* A data branch that forwards what it read twice.
OnDataTwice(cs, os, t, tl, conn_id, data) ==
    [conns |-> cs, objs |-> os,
     tun |-> TunQueue(TunQueue(t, Len(data)), Len(data)),
     tlog |-> [tl EXCEPT ![conn_id] =
                  Append(Append(@, Call("send", data)), Call("send", data))]]

\* _process_connection, lines 175-176: recv returned data.
OnData(cs, os, t, tl, conn_id, data) ==
    [conns |-> cs, objs |-> os, tun |-> TunQueue(t, Len(data)),
     tlog |-> [tl EXCEPT ![conn_id] = Append(@, Call("send", data))]]

\* _process_connection(conn), lines 162-176; res is the outcome of
\* conn.recv(4096): "data" (the bytes in data), "eof", "ECONNRESET" or
\* "error" (any other socket error, which is re-raised).  recv on a closed
\* socket raises EBADF.
ProcessConnection(cs, os, t, tl, o, res, data) ==
    LET conn_id == os[o].conn_id
        same    == [conns |-> cs, objs |-> os, tun |-> t, tlog |-> tl]
    IN  IF os[o].closed
        THEN [same EXCEPT !.objs = [os EXCEPT ![o] = BadOp(@)]]
        ELSE IF res = "error" THEN same
        ELSE IF res = "ECONNRESET" THEN OnReset(cs, os, t, tl, conn_id)
        ELSE IF res = "eof" THEN OnEof(cs, os, t, tl, conn_id)
        ELSE OnData(cs, [os EXCEPT ![o].recvd = @ \o data], t, tl, conn_id, data)

\* The exception _process_connection ends with, "none" when it returns.
ProcessConnectionRaises(os, o, res) ==
    IF os[o].closed THEN "EBADF"
    ELSE IF res = "error" THEN "socket.error"
    ELSE "none"

\* A local connection is readable and line 131 finds its conn_id in the table.
ReadConnection ==
    /\ pc = "rloop"
    /\ \E o \in rlist \ {TunnelEnt, ListenEnt} :
         /\ objs[o].conn_id \in DOMAIN conns
         /\ \E res \in {"data", "eof", "ECONNRESET", "error"} :
            \E len \in (IF res = "data" THEN 1..Budget ELSE {0}) :
              LET data == NextBytes(Len(objs[o].recvd), len)
                  r    == ProcessConnection(conns, objs, tun, tlog, o, res, data)
                  e    == ProcessConnectionRaises(objs, o, res)
              IN  /\ conns' = r.conns
                  /\ objs' = r.objs
                  /\ tun' = r.tun
                  /\ tlog' = r.tlog
                  /\ last' = [op |-> "recv", id |-> objs[o].conn_id,
                              arg |-> res, n |-> len]
                  /\ IF e = "none"
                     THEN /\ rlist' = rlist \ {o}
                          /\ waitAvail' = waitAvail
                          /\ UNCHANGED <<pc, exc, wlist, written_conns>>
                     ELSE Crash(e)
    /\ UNCHANGED <<running, stopRequested, listenOpen, backendCloses>>

\* A local connection is readable but line 131 does not find its conn_id in
\* the table any more: nothing is done.
ReadSkip ==
    /\ pc = "rloop"
    /\ \E o \in rlist \ {TunnelEnt, ListenEnt} :
         /\ objs[o].conn_id \notin DOMAIN conns
         /\ rlist' = rlist \ {o}
         /\ waitAvail' = waitAvail
         /\ last' = [NoLast EXCEPT !.op = "skipread", !.id = objs[o].conn_id]
    /\ UNCHANGED <<pc, running, stopRequested, conns, objs, tlog, wlist,
                   written_conns, tun, listenOpen, backendCloses, exc>>

\* All readable entities are handled (the rest was not ready): the write
\* loop starts.  rlist is a local of _process, dead from here on.
ReadDone ==
    /\ pc = "rloop"
    /\ pc' = "wloop"
    /\ rlist' = {}
    /\ waitAvail' = FALSE
    /\ written_conns' = {}
    /\ last' = NoLast
    /\ UNCHANGED <<running, stopRequested, conns, objs, tlog, wlist,
                   tun, listenOpen, backendCloses, exc>>

\* The handle of an entity: the handles of one entity are interchangeable,
\* the loop is shown taking the highest one left.
IsNextHandle(h) == \A g \in wlist : g[1] = h[1] => g[2] <= h[2]

\* A test of written_conns that never finds the entity.
NeverWritten(e, w) == FALSE

\* _process, line 136: conn in written_conns.
AlreadyWritten(e, w) == e \in w

\* _process, lines 134-139, for a handle of an entity already flushed.
WriteSkip ==
    /\ pc = "wloop"
    /\ \E h \in wlist :
         /\ AlreadyWritten(h[1], written_conns)
         /\ IsNextHandle(h)
         /\ wlist' = wlist \ {h}
         /\ last' = [NoLast EXCEPT !.op = "skipwrite", !.id = h[1]]
    /\ UNCHANGED <<pc, running, stopRequested, conns, objs, tlog, rlist, waitAvail,
                   written_conns, tun, listenOpen, backendCloses, exc>>

\* _process_sending(tunnel): continue_sending(); the backend accepts n of
\* the queued bytes, or the transport fails and the error propagates.
WriteTunnel ==
    /\ pc = "wloop"
    /\ \E h \in wlist :
         /\ h[1] = TunnelEnt
         /\ IsNextHandle(h)
         /\ ~AlreadyWritten(TunnelEnt, written_conns)
         /\ last' = [NoLast EXCEPT !.op = "flush", !.id = TunnelEnt]
         /\ \/ /\ \E n \in 0..tun.outq : tun' = TunContinueSending(tun, n)
               /\ wlist' = wlist \ {h}
               /\ written_conns' = written_conns \cup {TunnelEnt}
               /\ UNCHANGED <<pc, exc, rlist, waitAvail>>
            \/ /\ Crash("backend.error")
               /\ UNCHANGED tun
    /\ UNCHANGED <<running, stopRequested, conns, objs, tlog,
                   listenOpen, backendCloses>>

\* _process_sending(conn), lines 181-182.
ProcessSending(cs, os, o, out) ==
    IF os[o].conn_id \in DOMAIN cs
    THEN [os EXCEPT ![o] = ConnSend(@, <<>>, out)]
    ELSE os

ProcessSendingRaises(cs, os, o, out) ==
    IF os[o].conn_id \in DOMAIN cs
    THEN ConnSendRaises(os[o], <<>>, out)
    ELSE "none"

\* A local connection is writable and not yet flushed in this iteration.
WriteConnection ==
    /\ pc = "wloop"
    /\ \E h \in wlist :
         LET o == h[1]
         IN  /\ o # TunnelEnt
             /\ ~AlreadyWritten(o, written_conns)
             /\ \E out \in (IF objs[o].conn_id \in DOMAIN conns
                            THEN SendOutcomes(objs[o].send_buf)
                            ELSE {[err |-> "skip", n |-> 0]}) :
                  LET e == ProcessSendingRaises(conns, objs, o, out)
                  IN  /\ objs' = ProcessSending(conns, objs, o, out)
                      /\ last' = [op |-> "flush", id |-> o, arg |-> out.err,
                                  n |-> out.n]
                      /\ IF e = "none"
                         THEN /\ wlist' = wlist \ {h}
                              /\ written_conns' = written_conns \cup {o}
                              /\ UNCHANGED <<pc, exc, rlist, waitAvail>>
                         ELSE Crash(e)
    /\ UNCHANGED <<running, stopRequested, conns, tlog, tun,
                   listenOpen, backendCloses>>

\* The iteration ends (the rest was not ready): back to `while self.running`.
\* wlist and written_conns are locals of _process.
WriteDone ==
    /\ pc = "wloop"
    /\ pc' = "loop"
    /\ wlist' = {}
    /\ written_conns' = {}
    /\ last' = NoLast
    /\ UNCHANGED <<running, stopRequested, conns, objs, tlog, rlist, waitAvail,
                   tun, listenOpen, backendCloses, exc>>

\* A shutdown that forgets the connections of the table.
CloseAllNone(os, todo) == os

RECURSIVE CloseAll(_, _)
\* run(), lines 101-102: conn.close() for every conn of the table.
CloseAll(os, todo) ==
    IF todo = {} THEN os
    ELSE LET o == CHOOSE x \in todo : TRUE
         IN  CloseAll([os EXCEPT ![o] = ConnClose(@)], todo \ {o})

\* run(), lines 100-103: the loop is left; the listening socket and the
\* connections of the table are closed, then the record connection.
\* close() of a connection that is closed already raises (EBADF).
Closing ==
    /\ pc = "closing"
    /\ listenOpen' = FALSE
    /\ last' = NoLast
    /\ IF \E o \in OpenConns : objs[o].closed
       THEN /\ objs' = [o \in DOMAIN objs |->
                          IF o \in OpenConns /\ objs[o].closed
                          THEN BadOp(objs[o]) ELSE objs[o]]
            /\ Crash("EBADF")
            /\ UNCHANGED tun
       ELSE /\ objs' = CloseAll(objs, OpenConns)
            /\ \E n \in {0, RecordLen(0)} : tun' = RecordClose(tun, n)
            /\ pc' = "flush"
            /\ UNCHANGED <<rlist, waitAvail, wlist, written_conns, exc>>
    /\ UNCHANGED <<running, stopRequested, conns, tlog, backendCloses>>

\* A flush loop that is left without looking at the queue.
FlushDoneAlways(t) == TRUE

\* The test that leaves the flush loop of run(), line 106.
FlushDone(t) == TunWlist(t) = {}

\* run(), lines 104-109: one more round of the flush loop: select() for
\* writing, then continue_sending().  The backend may fail, and a signal
\* may interrupt the select() of line 108, which raises select.error
\* (EINTR) with no handler around it.
Flush ==
    /\ pc = "flush"
    /\ ~FlushDone(tun)
    /\ last' = [NoLast EXCEPT !.op = "flush", !.id = TunnelEnt]
    /\ \/ /\ \E n \in 0..tun.outq : tun' = TunContinueSending(tun, n)
          /\ UNCHANGED <<pc, exc, rlist, waitAvail, wlist, written_conns>>
       \/ /\ Crash("backend.error")
          /\ UNCHANGED tun
       \/ /\ Crash("EINTR")
          /\ UNCHANGED tun
    /\ UNCHANGED <<running, stopRequested, conns, objs, tlog, listenOpen,
                   backendCloses>>

\* run(), lines 106-107 and 110: nothing is left to flush; backend.close().
BackendClose ==
    /\ pc = "flush"
    /\ FlushDone(tun)
    /\ backendCloses' = backendCloses + 1
    /\ pc' = "done"
    /\ UNCHANGED <<running, stopRequested, conns, objs, tlog, rlist, waitAvail, wlist,
                   written_conns, tun, listenOpen, last, exc>>

Next ==
    \/ Signal
    \/ RunStart
    \/ LoopCheck
    \/ Select
    \/ SelectInterrupted
    \/ ReadTunnel
    \/ TunnelPacketUnknown
    \/ TunnelPacket
    \/ TunnelDone
    \/ TunnelClosed
    \/ ReadListening
    \/ ReadConnection
    \/ ReadSkip
    \/ ReadDone
    \/ WriteSkip
    \/ WriteTunnel
    \/ WriteConnection
    \/ WriteDone
    \/ Closing
    \/ Flush
    \/ BackendClose

Spec == Init /\ [][Next]_vars

----------------------------------------------------------------------------
\* Properties

\* The step is taken by the reactor, not by the signal handler.
NoSignal == running' = running /\ stopRequested' = stopRequested

\* The step handles a packet yielded by receive_packets().
PacketStep == pc = "tunnel" /\ last'.op = "packet" /\ NoSignal

\* The step is a _process_connection call.
RecvStep == pc = "rloop" /\ last'.op = "recv" /\ NoSignal

\* The step is a _process_sending call on a local connection.
SendStep == pc = "wloop" /\ last'.op = "flush" /\ last'.id # TunnelEnt /\ NoSignal

\* C1: when a FIN arrives for a stream of the table, its local connection
\* is closed only once every byte appended to its outbound buffer (the data
\* of the same packet included) has been written to the local socket.
C1_FinClosesAfterFlush ==
    [][\A id \in DOMAIN conns :
         (PacketStep /\ last'.id = id /\ HasFlag(last'.n, fin)) =>
            LET o == conns[id]
            IN  objs'[o].closed =>
                  /\ objs'[o].send_buf = <<>>
                  /\ objs'[o].sock = objs'[o].appended]_vars

\* C2: the bytes the socket accepted so far, followed by send_buf, are the
\* concatenation of all data arguments of send, in call order; a would-block
\* write leaves send_buf as it was (after the append of data, if any).
C2_SendKeepsBytes ==
    /\ [](\A o \in DOMAIN objs :
            objs[o].sock \o objs[o].send_buf = objs[o].appended)
    /\ [][\A o \in DOMAIN objs :
            /\ (SendStep /\ last'.id = o /\ last'.arg = "EWOULDBLOCK") =>
                  /\ objs'[o].send_buf = objs[o].send_buf
                  /\ objs'[o].sock = objs[o].sock
            /\ (PacketStep /\ last'.id = objs[o].conn_id /\ ~objs[o].closed
                    /\ last'.arg = "EWOULDBLOCK") =>
                  /\ objs'[o].send_buf =
                        objs[o].send_buf
                            \o Drop(objs'[o].appended, Len(objs[o].appended))
                  /\ objs'[o].sock = objs[o].sock]_vars

\* A partial write left bytes in the buffer and a later flush would block.
C2_Witness ==
    /\ last.op = "flush"
    /\ last.arg = "EWOULDBLOCK"
    /\ \E o \in DOMAIN objs :
         /\ last.id = o
         /\ objs[o].sock = <<1>>
         /\ objs[o].send_buf = <<2>>

\* C3: a packet with the RST flag for a stream of the table resets the local
\* connection at once (abortive close) and removes its entry, and no byte is
\* written to the local socket of a connection after its reset: neither what
\* its send_buf held nor the data of that packet.
C3_RstTearsDown ==
    [][/\ \A id \in DOMAIN conns :
            (PacketStep /\ last'.id = id /\ HasFlag(last'.n, rst)) =>
               LET o == conns[id]
               IN  /\ objs'[o].closed
                   /\ objs'[o].linger
                   /\ objs'[o].closes = 1
                   /\ id \notin DOMAIN conns'
                   /\ objs'[o].sock = objs[o].sock
       /\ \A o \in DOMAIN objs :
            objs[o].linger => /\ o \in DOMAIN objs'
                              /\ objs'[o].sock = objs[o].sock]_vars

\* A connection was reset by a packet while bytes were still buffered.
C3_Witness ==
    /\ last.op = "packet"
    /\ HasFlag(last.n, rst)
    /\ \E o \in DOMAIN objs :
         /\ objs[o].conn_id = last.id
         /\ objs[o].linger
         /\ objs[o].send_buf # <<>>
         /\ objs[o].conn_id \notin DOMAIN conns

\* C4: no local connection is ever closed twice, and when run() returns
\* after the record layer raised the connection-closed condition, every
\* local connection has been closed exactly once, those closed or accepted
\* earlier in the same iteration included.
C4_ClosedExactlyOnce ==
    /\ \A o \in DOMAIN objs : objs[o].closes <= 1
    /\ (pc = "done" /\ tun.eof) =>
          \A o \in DOMAIN objs : objs[o].closed /\ objs[o].closes = 1

\* run() returned after a connection-closed condition; one connection was
\* closed by run() itself, another one before.
C4_Witness ==
    /\ pc = "done"
    /\ tun.eof
    /\ conns # <<>>
    /\ \E o \in DOMAIN objs : o \notin OpenConns

\* C5: backend.close() is called only when the record connection has no
\* outbound byte buffered: the flush loop is left on an empty queue only.
C5_BackendClosedWhenFlushed ==
    /\ backendCloses <= 1
    /\ backendCloses > 0 => tun.outq = 0 /\ TunWlist(tun) = {}

\* The backend was closed after the flush loop had to send queued bytes.
C5_Witness ==
    /\ pc = "done"
    /\ backendCloses = 1
    /\ last.op = "flush"
    /\ tlog # <<>>

\* C6: an empty read on the connection of stream S makes exactly one
\* close_connection(S) and no other tunnel call, closes the connection (an
\* orderly close) and removes S from the table.
C6_EofSendsFin ==
    [][\A id \in DOMAIN conns :
         (RecvStep /\ last'.id = id /\ last'.arg = "eof") =>
            LET o == conns[id]
            IN  /\ tlog' = [tlog EXCEPT ![id] = Append(@, Call("close", <<>>))]
                /\ objs'[o].closed
                /\ objs'[o].closes = objs[o].closes + 1
                /\ ~objs'[o].linger
                /\ id \notin DOMAIN conns'
                /\ \A k \in DOMAIN conns \ {id} :
                      k \in DOMAIN conns' /\ conns'[k] = conns[k]]_vars

\* An empty read on a stream on which no byte was ever sent.
C6_Witness ==
    /\ last.op = "recv"
    /\ last.arg = "eof"
    /\ last.id \in DOMAIN tlog
    /\ tlog[last.id] = <<Call("new", <<>>), Call("close", <<>>)>>
    /\ last.id \notin DOMAIN conns

\* C7: a read that fails with ECONNRESET on the connection of stream S makes
\* exactly one reset_connection(S), resets the local connection (abortive,
\* not the orderly close), removes S from the table and leaves the reactor
\* running with every other entry unchanged.
C7_ResetForceCloses ==
    [][\A id \in DOMAIN conns :
         (RecvStep /\ last'.id = id /\ last'.arg = "ECONNRESET") =>
            LET o == conns[id]
            IN  /\ tlog' = [tlog EXCEPT ![id] = Append(@, Call("reset", <<>>))]
                /\ objs'[o].closed
                /\ objs'[o].linger
                /\ id \notin DOMAIN conns'
                /\ running' = running
                /\ pc' = pc
                /\ \A k \in DOMAIN conns \ {id} :
                      /\ k \in DOMAIN conns'
                      /\ conns'[k] = conns[k]
                      /\ objs'[conns[k]] = objs[conns[k]]]_vars

\* The calls on the tunnel for one stream: new_connection, then send_packet
\* calls, then at most one close_connection or reset_connection.
WellFormedCalls(s) ==
    /\ Len(s) >= 1
    /\ s[1].op = "new"
    /\ \A i \in 2..Len(s) :
         \/ s[i].op = "send"
         \/ i = Len(s) /\ s[i].op \in {"close", "reset"}

\* C8: the tunnel calls for a stream are one new_connection, then
\* send_packet calls, then at most one close_connection or reset_connection,
\* and no tunnel call is made for a stream that is out of the table.
C8_TunnelCallOrder ==
    /\ [](\A id \in DOMAIN tlog : WellFormedCalls(tlog[id]))
    /\ [][\A id \in DOMAIN tlog :
            id \notin DOMAIN conns =>
               /\ id \in DOMAIN tlog'
               /\ tlog'[id] = tlog[id]]_vars

\* A stream that carried data and was then closed by its local end, and the
\* reactor still at work.
C8_Witness ==
    /\ pc \in {"rloop", "tunnel", "wloop"}
    /\ \E id \in DOMAIN tlog :
         /\ Len(tlog[id]) = 3
         /\ tlog[id][2].op = "send"
         /\ tlog[id][3].op = "close"
         /\ id \notin DOMAIN conns

\* C9: the reactor never looks up or removes an entry of the table that is
\* already removed, whatever flags an inbound packet combines, and a stream
\* id that left the table does not come back.
C9_RemovedExactlyOnce ==
    /\ [](exc # "KeyError")
    /\ [][\A id \in DOMAIN tlog :
            id \notin DOMAIN conns => id \notin DOMAIN conns']_vars

\* C10: a packet whose stream id is not in the table changes nothing (the
\* table, the connections, the running flag, the tunnel) whatever its flags
\* and data, and the loop over receive_packets() goes on.
C10_UnknownIgnored ==
    [][(PacketStep /\ last'.arg = "unknown") =>
          /\ UNCHANGED <<conns, objs, running, tlog, tun, exc, rlist, wlist>>
          /\ pc' = "tunnel"]_vars

\* A packet for a stream that was closed is ignored while another stream is
\* open with bytes buffered.
C10_Witness ==
    /\ pc = "tunnel"
    /\ last.op = "packet"
    /\ last.arg = "unknown"
    /\ \E o \in OpenConns : objs[o].send_buf # <<>>
    /\ \E o \in DOMAIN objs : objs[o].closed

\* C11: once the connection-closed condition of the record layer has been
\* observed, no local connection is accepted and no new_connection,
\* send_packet, close_connection or reset_connection call is made, the
\* handles reported readable in the same iteration included.
C11_NoWorkAfterClosed ==
    [][tun.eof => /\ tlog' = tlog
                  /\ Len(objs') = Len(objs)]_vars

\* The positions of run() inside the `while self.running` loop (RUNNING).
InLoop == pc \in {"loop", "select", "rloop", "tunnel", "wloop"}

\* C12: a stop request delivered at any time after the handlers are
\* installed is never lost: the running flag stays false from then on, the
\* loop starts no new iteration, and once the loop is left the reactor does
\* not come back to it.
C12_StopNeverLost ==
    /\ [](stopRequested => ~running)
    /\ [][(stopRequested /\ pc = "loop") => pc' # "select"]_vars
    /\ [][(pc \notin {"start"} /\ ~InLoop) => ~InLoop']_vars

\* C13: a signal that interrupts a readiness wait, in the loop of _process
\* or in the flush loop of run(), is not an error: the table, the
\* connections and the tunnel are unchanged, the wait is retried and no
\* error leaves run().
C13_InterruptedWaitRetried ==
    /\ [](exc # "EINTR")
    /\ [][(pc = "select" /\ pc' = "loop") =>
            UNCHANGED <<conns, objs, tlog, tun, listenOpen, backendCloses, exc>>]_vars

\* The step reads the wait sets and calls select(), which returns.
SelectStep == pc = "select" /\ pc' = "rloop"

\* C14: the read wait set of an iteration always holds the tunnel and the
\* listening socket, and holds the open local connections only if
\* tunnel.available was true when it was built; in an iteration whose wait
\* set was built while the tunnel was not available no local connection is
\* read and no send_packet, close_connection or reset_connection is issued.
C14_ReadSetOnlyIfAvailable ==
    /\ [][SelectStep =>
            /\ {TunnelEnt, ListenEnt} \subseteq rlist'
            /\ rlist' \ {TunnelEnt, ListenEnt} =
                  (IF tun.available THEN OpenConns ELSE {})
            /\ waitAvail' = tun.available]_vars
    /\ [][(pc \in {"rloop", "tunnel"} /\ ~waitAvail) =>
            /\ last'.op # "recv"
            /\ \A o \in DOMAIN objs : objs'[o].recvd = objs[o].recvd
            /\ \A id \in DOMAIN tlog : tlog'[id] = tlog[id]]_vars

\* An iteration whose wait set was built while the tunnel was not available
\* and a local connection was open: the connection is not waited for, and
\* the tunnel has become available during the iteration.
C14_Witness ==
    /\ pc = "rloop"
    /\ ~waitAvail
    /\ tun.available
    /\ ListenEnt \in rlist
    /\ OpenConns # {}
    /\ OpenConns \cap rlist = {}

\* The step is a _process_listening call that returns.
AcceptStep == pc = "rloop" /\ last'.op = "accept" /\ exc' = "none" /\ NoSignal

RECURSIVE SentBytes(_)
\* The data of the send_packet calls of a call sequence, concatenated.
SentBytes(s) ==
    IF s = <<>> THEN <<>>
    ELSE (IF Head(s).op = "send" THEN Head(s).data ELSE <<>>) \o SentBytes(Tail(s))

FlushStep == pc = "wloop" /\ last'.op = "flush" /\ NoSignal

\* C17: within one iteration each entity is flushed at most once, however
\* many of its handles are ready: an entity is flushed only if it is not in
\* written_conns, it is there afterwards, and an entity of written_conns is
\* not touched again by the write loop; a local connection whose stream id
\* is out of the table is not flushed.
C17_FlushedOncePerIteration ==
    [][/\ FlushStep =>
            /\ last'.id \notin written_conns
            /\ pc' = "wloop" => written_conns' = written_conns \cup {last'.id}
       /\ pc = "wloop" =>
            /\ TunnelEnt \in written_conns => tun' = tun
            /\ \A o \in DOMAIN objs :
                 (o \in written_conns \/ objs[o].conn_id \notin DOMAIN conns)
                     => objs'[o] = objs[o]]_vars

\* In one write loop a connection closed by a packet of the same iteration
\* was skipped by _process_sending, the tunnel was flushed, and the second
\* handle of the tunnel is passed over.
C17_Witness ==
    /\ pc = "wloop"
    /\ last.op = "skipwrite"
    /\ last.id = TunnelEnt
    /\ TunnelEnt \in written_conns
    /\ \E o \in written_conns \ {TunnelEnt} :
         /\ objs[o].conn_id \notin DOMAIN conns
         /\ objs[o].send_buf # <<>>

\* C18: once the loop of run() is left, and the backend raising no error,
\* run() goes on to STOPPED: a step of the flush loop stays in the flush
\* loop or ends it, nothing ends run() before backend.close(), and on an
\* empty outbound queue the next step of run() is backend.close(), not
\* another wait.
C18_DrainTerminates ==
    /\ [][(pc \in {"closing", "flush"} /\ exc' # "backend.error") =>
            pc' \in {"closing", "flush", "done"}]_vars
    /\ [][(pc = "flush" /\ tun.outq = 0 /\ NoSignal) =>
            /\ pc' = "done"
            /\ backendCloses' = backendCloses + 1]_vars

\* C19: no recv, send, close or reset is ever attempted on a local
\* connection that has been closed or reset, within one iteration as across
\* iterations and whatever flags an inbound packet combines.
C19_NoOpAfterClose ==
    /\ exc # "EBADF"
    /\ \A o \in DOMAIN objs : objs[o].badOps = 0

\* run() has ended: it returned (after a stop request or a connection-closed
\* condition), or a local socket read or write raised an error other than
\* would-block, which left run().
Ended ==
    \/ pc = "done"
    \/ /\ pc = "crashed"
       /\ exc = "socket.error"
       /\ last.op \in {"recv", "flush", "packet"}

\* C20: however run() ends (stop request, connection-closed condition, or
\* an error of a local socket read or write), it ends with the listening
\* socket, every local connection of the table and the backend closed; an
\* error on one local connection does not leave the others open.
C20_AllReleasedAtExit ==
    Ended =>
        /\ ~listenOpen
        /\ \A o \in OpenConns : objs[o].closed
        /\ backendCloses = 1

====
